---- MODULE Spec2Model ----
(***************************************************************************)
(* The consent-form component of clutch-consent as a state machine.        *)
(*                                                                         *)
(* The repository holds two builds of the same React component:            *)
(*   - the typed build   (src/unnamed/part_000), and                       *)
(*   - the legacy build  (src/app/components/ClutchConsentForm.tsx).       *)
(* A session runs one of them; the variable `component` says which, and    *)
(* every handler is modelled once per build, from that build's code.       *)
(*                                                                         *)
(* State: the React state cells (file, extracting, formData,               *)
(* extractionComplete, error), the asynchronous work that is suspended at  *)
(* an await (extractions, lookups, each with the requests it has issued),  *)
(* the number of user edits, the letters the export has rendered           *)
(* (renders), and `last`, the handler that ran last with its inputs.       *)
(* Each action is one run of a handler or of the continuation after an     *)
(* await: JavaScript runs it to its next await without interleaving.       *)
(*                                                                         *)
(* Not modelled: property values that are neither strings, null nor absent *)
(* (numbers, arrays, objects), and response texts that are a JSON value    *)
(* other than an object.                                                   *)
(***************************************************************************)
EXTENDS Integers, Sequences, FiniteSets, TLC

VARIABLES component, file, extracting, formData, extractionComplete, error,
          extractions, lookups, edits, renders, last

ui == <<file, extracting, extractionComplete, error>>
vars == <<component, file, extracting, formData, extractionComplete, error,
          extractions, lookups, edits, renders, last>>

(***************************************************************************)
(* Bounds of the model.                                                    *)
(***************************************************************************)
MaxEvents == 3
MaxDecodeEvents == 2
MaxDecodeLookups == 1
MaxExportEvents == 3
MaxParseUploads == 1

(***************************************************************************)
(* JavaScript values as far as the handlers tell them apart: undefined     *)
(* (an absent property), null, and strings.                                *)
(***************************************************************************)
JsUndefined == [t |-> "undefined"]
JsNull == [t |-> "null"]
JsStr(s) == [t |-> "string", v |-> s]

\* a ?? b
Nullish(a) == a.t \in {"undefined", "null"}
Coalesce(a, b) == IF Nullish(a) THEN b ELSE a

\* a || b and !a, for the values above
Truthy(a) == a.t = "string" /\ a.v # ""
OrElse(a, b) == IF Truthy(a) THEN a ELSE b

(***************************************************************************)
(* The form record.                                                        *)
(***************************************************************************)
ExtractedFields == {"fullName", "address", "year", "makeModel", "vin"}
FormFields == ExtractedFields \cup {"date"}

(***************************************************************************)
(* Dates.  A stored date is the text YYYY-MM-DD, character by character;   *)
(* the renderer parses it as midnight UTC and reads it back in local time. *)
(***************************************************************************)
Digits == <<"0", "1", "2", "3", "4", "5", "6", "7", "8", "9">>
DigitValue(c) == (CHOOSE i \in 1..10 : Digits[i] = c) - 1

\* n in decimal, padded with zeros to `width` characters
RECURSIVE Pad(_, _)
Pad(n, width) == IF width = 0 THEN <<>> ELSE Pad(n \div 10, width - 1) \o <<Digits[(n % 10) + 1]>>

\* the decimal number written by the characters cs
RECURSIVE NumberOf(_)
NumberOf(cs) ==
  IF cs = <<>> THEN 0 ELSE 10 * NumberOf(SubSeq(cs, 1, Len(cs) - 1)) + DigitValue(cs[Len(cs)])

\* toISOString().split('T')[0] of the calendar day y-m-d (UTC), which is
\* also the form of the value of a date input
toISODate(y, m, d) == Pad(y, 4) \o <<"-">> \o Pad(m, 2) \o <<"-">> \o Pad(d, 2)

IsLeap(y) == (y % 4 = 0 /\ y % 100 # 0) \/ y % 400 = 0
DaysIn(y, m) ==
  IF m = 2 THEN (IF IsLeap(y) THEN 29 ELSE 28)
  ELSE IF m \in {4, 6, 9, 11} THEN 30 ELSE 31

\* new Date('YYYY-MM-DD'): a date-only text is midnight UTC of that day
dateObj(date) ==
  [y |-> NumberOf(SubSeq(date, 1, 4)), m |-> NumberOf(SubSeq(date, 6, 7)),
   d |-> NumberOf(SubSeq(date, 9, 10))]

PrevDay(utc) ==
  IF utc.d > 1 THEN [utc EXCEPT !.d = @ - 1]
  ELSE IF utc.m > 1 THEN [utc EXCEPT !.m = @ - 1, !.d = DaysIn(utc.y, utc.m - 1)]
  ELSE [y |-> utc.y - 1, m |-> 12, d |-> 31]

\* getFullYear(), getMonth() + 1 and getDate(): the local calendar day at
\* midnight UTC, for a browser `offset` minutes east of UTC (-720..840)
localDay(utc, offset) == IF offset \div 1440 < 0 THEN PrevDay(utc) ELSE utc

months ==
  <<"January", "February", "March", "April", "May", "June", "July", "August",
    "September", "October", "November", "December">>

formattedDate(date, offset) ==
  months[localDay(dateObj(date), offset).m] \o " "
    \o ToString(localDay(dateObj(date), offset).d) \o ", "
    \o ToString(localDay(dateObj(date), offset).y)

\* todayISO() at session start, and a date the user may pick instead
SessionStartDate == toISODate(2026, 11, 3)
PickedDate == toISODate(2024, 3, 5)

InitialFormData ==
  [fullName |-> "", address |-> "", year |-> "", makeModel |-> "", vin |-> "",
   date |-> SessionStartDate]

(***************************************************************************)
(* Upload validation.                                                      *)
(***************************************************************************)
allowedTypes == {"application/pdf", "image/jpeg", "image/jpg", "image/png"}
\* a validator that lets every image type through
isAllowedMime_AnyImage(t) == t \in allowedTypes \cup {"image/gif"}
isAllowedMime(t) == t \in allowedTypes

validTypes == {"application/pdf", "image/jpeg", "image/jpg", "image/png"}

\* e.target.files[0]: no file selected, or a file with its declared media type
NoFile == "<no file>"
\* the `file` cell: null, or the File that was accepted last
Selected == "<file>"
MediaTypes == allowedTypes \cup {"image/gif", "text/plain", ""}

UploadError == "Please upload a PDF or image file (JPG/PNG)"
ExtractionError ==
  "Could not extract information from this file. Please fill the form manually below."

(***************************************************************************)
(* The text of an AI response, as the runs of characters the parsing code  *)
(* tells apart: code-fence markers, whitespace, prose without braces, a    *)
(* brace-delimited run that is not JSON ("{see note}"), and a JSON object  *)
(* literal with the properties it carries.                                 *)
(***************************************************************************)
FenceJson == [k |-> "fence_json"]
Fence == [k |-> "fence"]
Ws == [k |-> "ws"]
Prose == [k |-> "prose"]
Braces == [k |-> "braces"]
Obj(p) == [k |-> "obj", p |-> p]

IsWs(s) == s.k = "ws"
IsFence(s) == s.k \in {"fence_json", "fence"}
HasBraces(s) == s.k \in {"obj", "braces"}

\* String.prototype.trim
RECURSIVE TrimLeft(_)
TrimLeft(t) ==
  IF t # <<>> /\ IsWs(Head(t)) THEN TrimLeft(Tail(t)) ELSE t

RECURSIVE TrimRight(_)
TrimRight(t) ==
  IF t # <<>> /\ IsWs(t[Len(t)]) THEN TrimRight(SubSeq(t, 1, Len(t) - 1)) ELSE t

Trim(t) == TrimRight(TrimLeft(t))

\* Array.prototype.join('\n') over the texts of the content items
RECURSIVE JoinNewline(_)
JoinNewline(texts) ==
  IF texts = <<>> THEN <<>>
  ELSE IF Len(texts) = 1 THEN texts[1]
  ELSE texts[1] \o <<Ws>> \o JoinNewline(Tail(texts))

\* textContent.replace(/```json|```/g, '')
StripFences(t) == SelectSeq(t, LAMBDA s : ~IsFence(s))

\* JSON.parse: the text must be one JSON value between optional whitespace
JSONParse(t) ==
  LET tokens == SelectSeq(t, LAMBDA s : ~IsWs(s)) IN
    IF Len(tokens) = 1 /\ tokens[1].k = "obj"
      THEN [ok |-> TRUE, props |-> tokens[1].p]
      ELSE [ok |-> FALSE, props |-> <<>>]

\* cleanJson.match(/\{[\s\S]*\}/): greedy, from the first "{" to the last "}"
MatchBraces(t) ==
  LET at == {i \in 1..Len(t) : HasBraces(t[i])} IN
    IF at = {} THEN [found |-> FALSE, text |-> <<>>]
    ELSE LET lo == CHOOSE i \in at : \A j \in at : i <= j
             hi == CHOOSE i \in at : \A j \in at : i >= j
         IN [found |-> TRUE, text |-> SubSeq(t, lo, hi)]

\* how the try block of extractInformation ends: with a throw, or with the
\* properties of the parsed object
Throws(reason) == [ok |-> FALSE, reason |-> reason, props |-> <<>>]
Extracted(props) == [ok |-> TRUE, reason |-> "", props |-> props]

(***************************************************************************)
(* A response of the AI endpoint: the fetch rejects (netOk = FALSE), or it *)
(* resolves with a status (httpOk) and a body that is JSON or not (jsonOk) *)
(* and, when JSON, has a content list or none (hasContent).  A content     *)
(* item is a text item with its text, or an item of another type.          *)
(***************************************************************************)
TextItem(t) == [type |-> "text", text |-> t]
OtherItem == [type |-> "tool_use", text |-> <<>>]

AiResponse(netOk, httpOk, jsonOk, hasContent, content) ==
  [netOk |-> netOk, httpOk |-> httpOk, jsonOk |-> jsonOk,
   hasContent |-> hasContent, content |-> content]

\* data.content?.filter(text items).map(text).join('\n') ?? ''
textContent(r) ==
  IF r.hasContent
    THEN JoinNewline([i \in 1..Len(SelectSeq(r.content, LAMBDA c : c.type = "text")) |->
                        SelectSeq(r.content, LAMBDA c : c.type = "text")[i].text])
    ELSE <<>>

\* the typed build: JSON.parse of the cleaned text, else of the brace match
parseExtracted(text) ==
  LET cleanJson == Trim(StripFences(text))
      whole == JSONParse(cleanJson)
      match == MatchBraces(cleanJson)
  IN IF whole.ok THEN Extracted(whole.props)
     ELSE IF ~match.found THEN Throws("Could not parse JSON from extracted text")
     ELSE IF JSONParse(match.text).ok THEN Extracted(JSONParse(match.text).props)
     ELSE Throws("SyntaxError")

\* the typed build: the try block of extractInformation from the fetch on
extractionResult(r) ==
  IF ~r.netOk THEN Throws("fetch rejected")
  ELSE IF ~r.httpOk THEN Throws("API error")
  ELSE IF ~r.jsonOk THEN Throws("response.json() rejected")
  ELSE IF Trim(textContent(r)) = <<>> THEN Throws("No text content extracted")
  ELSE parseExtracted(textContent(r))

\* the legacy build: JSON.parse of the cleaned text only
parseExtractedLegacy(text) ==
  LET cleanJson == Trim(StripFences(text))
      whole == JSONParse(cleanJson)
  IN IF whole.ok THEN Extracted(whole.props) ELSE Throws("SyntaxError")

\* the legacy build: no check of the status; an absent or empty content list
\* and an empty text throw
extractionResultLegacy(r) ==
  IF ~r.netOk THEN Throws("fetch rejected")
  ELSE IF ~r.jsonOk THEN Throws("response.json() rejected")
  ELSE IF ~r.hasContent \/ r.content = <<>> THEN Throws("No content received from API")
  ELSE IF textContent(r) = <<>> THEN Throws("No text content extracted")
  ELSE parseExtractedLegacy(textContent(r))

\* a merge that puts the date back to the session's start
mergeExtracted_Redated(prev, extracted) ==
  [fullName |-> Coalesce(extracted["fullName"], JsStr(prev.fullName)).v,
   address |-> Coalesce(extracted["address"], JsStr(prev.address)).v,
   year |-> Coalesce(extracted["year"], JsStr(prev.year)).v,
   makeModel |-> Coalesce(extracted["makeModel"], JsStr(prev.makeModel)).v,
   vin |-> Coalesce(extracted["vin"], JsStr(prev.vin)).v,
   date |-> SessionStartDate]

\* the typed build: setFormData(prev => ({fullName: extracted.fullName ?? prev.fullName, ...}))
mergeExtracted(prev, extracted) ==
  [fullName |-> Coalesce(extracted["fullName"], JsStr(prev.fullName)).v,
   address |-> Coalesce(extracted["address"], JsStr(prev.address)).v,
   year |-> Coalesce(extracted["year"], JsStr(prev.year)).v,
   makeModel |-> Coalesce(extracted["makeModel"], JsStr(prev.makeModel)).v,
   vin |-> Coalesce(extracted["vin"], JsStr(prev.vin)).v,
   date |-> prev.date]

\* the legacy build: setFormData(prev => ({fullName: extracted.fullName || prev.fullName, ...}))
mergeExtractedLegacy(prev, extracted) ==
  [fullName |-> OrElse(extracted["fullName"], JsStr(prev.fullName)).v,
   address |-> OrElse(extracted["address"], JsStr(prev.address)).v,
   year |-> OrElse(extracted["year"], JsStr(prev.year)).v,
   makeModel |-> OrElse(extracted["makeModel"], JsStr(prev.makeModel)).v,
   vin |-> OrElse(extracted["vin"], JsStr(prev.vin)).v,
   date |-> prev.date]

(***************************************************************************)
(* VIN decoding.  A response of the lookup endpoint: the fetch rejects, or *)
(* it resolves with a status and a body that is JSON or not and, when      *)
(* JSON, has a Results list or none.  `results` gives, per Variable, the   *)
(* Value of the first item of that Variable: undefined when there is no    *)
(* such item, null, or a string.                                           *)
(***************************************************************************)
Variables == {"Make", "Model", "Series", "Trim", "Model Year"}
NotApplicable == "Not Applicable"
NoResults == [v \in Variables |-> JsUndefined]

VinResponse(netOk, httpOk, jsonOk, hasResults, results) ==
  [netOk |-> netOk, httpOk |-> httpOk, jsonOk |-> jsonOk,
   hasResults |-> hasResults, results |-> results]

\* results.find((item) => item.Variable === variable)?.Value ?? ''
findValue(results, variable) == Coalesce(results[variable], JsStr("")).v

\* data.Results.find(item => item.Variable === variable)?.Value || ''
findValueLegacy(results, variable) == OrElse(results[variable], JsStr("")).v

\* a fallback that goes from Model straight to Trim
modelOf_SkipSeries(model, series, trim) ==
  IF model = "" \/ model = NotApplicable THEN trim ELSE model

\* let model = findValue('Model'); if (!model || model === 'Not Applicable') ...
modelOf(model, series, trim) ==
  LET m1 == IF model = "" \/ model = NotApplicable THEN series ELSE model
      m2 == IF m1 = "" \/ m1 = NotApplicable THEN trim ELSE m1
  IN m2

\* let makeModelStr = ''; if (make && ...) makeModelStr = make; if (model && ...) ...
makeModelStr(make, model) ==
  LET s == IF make # "" /\ make # NotApplicable THEN make ELSE "" IN
    IF model # "" /\ model # NotApplicable
      THEN (IF s # "" THEN s \o " " \o model ELSE model)
      ELSE s

\* the typed build: the make-model string and the year decodeVIN derives
derived(results) ==
  [makeModelStr |->
     makeModelStr(findValue(results, "Make"),
                  modelOf(findValue(results, "Model"), findValue(results, "Series"),
                          findValue(results, "Trim"))),
   year |-> findValue(results, "Model Year")]

\* the legacy build: the same derivation over findValueLegacy
derivedLegacy(results) ==
  [makeModelStr |->
     makeModelStr(findValueLegacy(results, "Make"),
                  modelOf(findValueLegacy(results, "Model"),
                          findValueLegacy(results, "Series"),
                          findValueLegacy(results, "Trim"))),
   year |-> findValueLegacy(results, "Model Year")]

\* a merge that always replaces makeModel
mergeDecoded_AlwaysReplace(prev, vin, d) ==
  [prev EXCEPT !.vin = vin,
               !.makeModel = d.makeModelStr,
               !.year = IF d.year # "" /\ d.year # NotApplicable THEN d.year ELSE prev.year]

\* setFormData(prev => ({...prev, vin, makeModel: makeModelStr || prev.makeModel,
\*                       year: year && year !== 'Not Applicable' ? year : prev.year}))
mergeDecoded(prev, vin, d) ==
  [prev EXCEPT !.vin = vin,
               !.makeModel = IF d.makeModelStr # "" THEN d.makeModelStr ELSE prev.makeModel,
               !.year = IF d.year # "" /\ d.year # NotApplicable THEN d.year ELSE prev.year]

\* the legacy build: const updates = { vin }; if (makeModelStr) ...; if (year && ...) ...
\* setFormData(prev => ({...prev, ...updates}))
mergeDecodedLegacy(prev, vin, d) ==
  LET withVin == [prev EXCEPT !.vin = vin]
      withMake == IF d.makeModelStr # ""
                    THEN [withVin EXCEPT !.makeModel = d.makeModelStr] ELSE withVin
  IN IF d.year # "" /\ d.year # NotApplicable
       THEN [withMake EXCEPT !.year = d.year] ELSE withMake

\* the typed build: how decodeVIN ends for a response
decodeResult(r) ==
  IF ~r.netOk THEN "caught"
  ELSE IF ~r.httpOk THEN "returned"
  ELSE IF ~r.jsonOk THEN "caught"
  ELSE "merged"

\* the typed build: const results = data.Results ?? []
resultsOf(r) == IF r.hasResults THEN r.results ELSE NoResults

\* the legacy build: no check of the status; if (data.Results) { ... }
decodeResultLegacy(r) ==
  IF ~r.netOk THEN "caught"
  ELSE IF ~r.jsonOk THEN "caught"
  ELSE IF ~r.hasResults THEN "skipped"
  ELSE "merged"

(***************************************************************************)
(* The inputs the environment supplies: what the user types, what the      *)
(* document carries, and what the two endpoints answer.                    *)
(***************************************************************************)
UserVin == "5YJSA1E26HF000337"
OtherVin == "WBA3A5C51CF256651"
ShortVin == "5YJSA1E26HF00033"
LongVin == "5YJSA1E26HF0003370"
DocumentVin == "1HGBH41JXMN109186"

UserValues(field) ==
  CASE field = "fullName" -> {"", "Jane Doe"}
    [] field = "address" -> {"", "1 Main St"}
    [] field = "year" -> {"", "2018"}
    [] field = "makeModel" -> {"", "Ford F150"}
    [] field = "vin" -> {"", UserVin, OtherVin, ShortVin, LongVin}
    [] field = "date" -> {SessionStartDate, PickedDate}

DocumentValue ==
  [fullName |-> "John Roe", address |-> "2 Elm Rd", year |-> "2019",
   makeModel |-> "Toyota Camry", vin |-> DocumentVin]

\* the object the AI returns: the fields in `filled` carry the document's
\* value, those in `empty` the empty string, those in `nulls` null, and the
\* others are absent
Payload(filled, empty, nulls) ==
  [f \in ExtractedFields |->
     IF f \in filled THEN JsStr(DocumentValue[f])
     ELSE IF f \in empty THEN JsStr("")
     ELSE IF f \in nulls THEN JsNull
     ELSE JsUndefined]

ScenarioPayload == Payload({"fullName", "year", "vin"}, {"address", "makeModel"}, {})

Payloads ==
  {Payload(ExtractedFields, {}, {}), Payload({}, ExtractedFields, {}),
   Payload({}, {}, ExtractedFields), Payload({}, {}, {}), ScenarioPayload}
  \cup {Payload(ExtractedFields \ {f}, {f}, {}) : f \in ExtractedFields}
  \cup {Payload({f}, ExtractedFields \ {f}, {}) : f \in ExtractedFields}
  \cup {Payload(ExtractedFields \ {f}, {}, {}) : f \in ExtractedFields}

Texts ==
  {<<Obj(p)>> : p \in Payloads}
  \cup {<<FenceJson, Ws, Obj(ScenarioPayload), Ws, Fence>>,
        <<Prose, Ws, Obj(ScenarioPayload), Ws, Prose>>,
        <<Prose, Braces, Ws, Obj(ScenarioPayload)>>,
        <<Obj(ScenarioPayload), Prose, Obj(Payload(ExtractedFields, {}, {}))>>,
        <<Prose>>, <<Ws>>, <<Fence, Fence>>, <<>>}

HttpBodies ==
  {AiResponse(TRUE, TRUE, FALSE, FALSE, <<>>),
   AiResponse(TRUE, TRUE, TRUE, FALSE, <<>>),
   AiResponse(TRUE, TRUE, TRUE, TRUE, <<>>),
   AiResponse(TRUE, TRUE, TRUE, TRUE, <<OtherItem>>),
   AiResponse(TRUE, TRUE, TRUE, TRUE, <<TextItem(<<>>), TextItem(<<>>)>>),
   AiResponse(TRUE, TRUE, TRUE, TRUE,
              <<TextItem(<<Prose>>), OtherItem, TextItem(<<Obj(ScenarioPayload)>>)>>)}
  \cup {AiResponse(TRUE, TRUE, TRUE, TRUE, <<TextItem(t)>>) : t \in Texts}

AiResponses ==
  {AiResponse(FALSE, FALSE, FALSE, FALSE, <<>>)}
  \cup HttpBodies
  \cup {AiResponse(TRUE, FALSE, FALSE, FALSE, <<>>),
        AiResponse(TRUE, FALSE, TRUE, FALSE, <<>>),
        AiResponse(TRUE, FALSE, TRUE, TRUE, <<TextItem(<<Obj(ScenarioPayload)>>)>>)}

Results(make, model, series, trim, year) ==
  [v \in Variables |->
     CASE v = "Make" -> make [] v = "Model" -> model [] v = "Series" -> series
       [] v = "Trim" -> trim [] v = "Model Year" -> year]

NA == JsStr(NotApplicable)

Values(real) == {JsUndefined, JsStr(""), NA, JsStr(real)}
Years == {JsUndefined, JsNull, JsStr(""), NA, JsStr("2020")}

ResultLists ==
  {Results(make, model, series, trim, JsStr("2020")) :
     make \in Values("Honda"), model \in Values("Accord"), series \in Values("Sport"),
     trim \in Values("EX")}
  \cup {Results(NA, NA, NA, NA, year) : year \in Years}
  \cup {Results(JsStr("Honda"), NA, JsStr("Civic"), JsUndefined, year) : year \in Years}
  \cup {Results(JsNull, JsNull, JsNull, JsStr("EX"), JsStr("2020")),
        Results(JsStr("Honda"), JsNull, JsStr("Sport"), JsNull, JsNull)}

VinResponses ==
  {VinResponse(FALSE, FALSE, FALSE, FALSE, NoResults),
   VinResponse(TRUE, FALSE, FALSE, FALSE, NoResults),
   VinResponse(TRUE, FALSE, TRUE, TRUE,
               Results(JsStr("Honda"), JsStr("Accord"), JsStr("Sport"), JsStr("EX"),
                       JsStr("2020"))),
   VinResponse(TRUE, TRUE, FALSE, FALSE, NoResults),
   VinResponse(TRUE, TRUE, TRUE, FALSE, NoResults)}
  \cup {VinResponse(TRUE, TRUE, TRUE, TRUE, rs) : rs \in ResultLists}

\* the responses of a session
SessionAiResponses ==
  {AiResponse(FALSE, FALSE, FALSE, FALSE, <<>>),
   AiResponse(TRUE, FALSE, TRUE, TRUE, <<TextItem(<<Obj(ScenarioPayload)>>)>>),
   AiResponse(TRUE, TRUE, TRUE, TRUE, <<TextItem(<<Prose>>)>>),
   AiResponse(TRUE, TRUE, TRUE, TRUE, <<TextItem(<<Obj(ScenarioPayload)>>)>>)}

SessionVinResponses ==
  {VinResponse(FALSE, FALSE, FALSE, FALSE, NoResults),
   VinResponse(TRUE, FALSE, TRUE, TRUE,
               Results(JsStr("Honda"), NA, JsStr("Civic"), JsUndefined, JsStr("2020"))),
   VinResponse(TRUE, TRUE, TRUE, FALSE, NoResults),
   VinResponse(TRUE, TRUE, TRUE, TRUE,
               Results(JsStr("Honda"), NA, JsStr("Civic"), JsUndefined, JsStr("2020")))}

(***************************************************************************)
(* The state after construction.                                           *)
(***************************************************************************)
Init ==
  /\ component \in {"typed", "legacy"}
  /\ file = NoFile
  /\ extracting = FALSE
  /\ formData = InitialFormData
  /\ extractionComplete = FALSE
  /\ error = ""
  /\ extractions = <<>>
  /\ lookups = <<>>
  /\ edits = 0
  /\ renders = <<>>
  /\ last = [op |-> "init"]

(***************************************************************************)
(* Uploads.                                                                *)
(***************************************************************************)
\* an upload that starts the pipeline twice
started_Twice(exs) ==
  Append(Append(exs, [stage |-> "reading", read |-> "pending", requests |-> 0]),
         [stage |-> "reading", read |-> "pending", requests |-> 0])

\* extractInformation up to its first await: the extraction that is now
\* reading the file and has issued no request yet
started(exs) == Append(exs, [stage |-> "reading", read |-> "pending", requests |-> 0])

InFlight(exs) == {i \in 1..Len(exs) : exs[i].stage \in {"reading", "fetching"}}
Requested(exs) == {i \in 1..Len(exs) : exs[i].stage = "fetching"}

RECURSIVE AiRequests(_)
AiRequests(exs) == IF exs = <<>> THEN 0 ELSE Head(exs).requests + AiRequests(Tail(exs))

\* the typed build
handleFileUpload(uploadedFile) ==
  /\ component = "typed"
  /\ IF uploadedFile = NoFile THEN
       UNCHANGED <<ui, extractions>>
     ELSE IF ~isAllowedMime(uploadedFile) THEN
       /\ error' = UploadError
       /\ file' = NoFile
       /\ extractionComplete' = FALSE
       /\ UNCHANGED <<extracting, extractions>>
     ELSE
       /\ file' = Selected
       /\ error' = ""
       /\ extractionComplete' = FALSE
       /\ extracting' = TRUE
       /\ extractions' = started(extractions)
  /\ last' = [op |-> "upload", type |-> uploadedFile]
  /\ UNCHANGED <<component, formData, lookups, edits, renders>>

\* the legacy build
handleFileUploadLegacy(uploadedFile) ==
  /\ component = "legacy"
  /\ IF uploadedFile = NoFile THEN
       UNCHANGED <<ui, extractions>>
     ELSE IF uploadedFile \notin validTypes THEN
       /\ error' = UploadError
       /\ UNCHANGED <<file, extractionComplete, extracting, extractions>>
     ELSE
       /\ file' = Selected
       /\ error' = ""
       /\ extractionComplete' = FALSE
       /\ extracting' = TRUE
       /\ extractions' = started(extractions)
  /\ last' = [op |-> "upload", type |-> uploadedFile]
  /\ UNCHANGED <<component, formData, lookups, edits, renders>>

(***************************************************************************)
(* The extraction pipeline after its awaits.                               *)
(***************************************************************************)
\* an extraction that sends its request twice
requested_Retry(job) == [job EXCEPT !.stage = "fetching", !.read = "ok", !.requests = @ + 2]

\* const response = await fetch(...): the one request of an extraction
requested(job) == [job EXCEPT !.stage = "fetching", !.read = "ok", !.requests = @ + 1]

\* await fileToBase64(f) settles: the fetch is issued, or the rejection is
\* caught (the same in both builds)
fileRead(id, ok) ==
  /\ id \in 1..Len(extractions)
  /\ extractions[id].stage = "reading"
  /\ IF ok THEN
       /\ extractions' = [extractions EXCEPT ![id] = requested(@)]
       /\ UNCHANGED <<error, extracting>>
     ELSE
       /\ extractions' = [extractions EXCEPT ![id].stage = "done", ![id].read = "failed"]
       /\ error' = ExtractionError
       /\ extracting' = FALSE
  /\ last' = [op |-> "fileRead", job |-> id, ok |-> ok]
  /\ UNCHANGED <<component, file, formData, extractionComplete, lookups, edits, renders>>

\* the typed build: the form after the response is handled
afterExtraction(prev, r) ==
  IF extractionResult(r).ok THEN mergeExtracted(prev, extractionResult(r).props) ELSE prev

\* the legacy build: the form after the response is handled
afterExtractionLegacy(prev, r) ==
  IF extractionResultLegacy(r).ok
    THEN mergeExtractedLegacy(prev, extractionResultLegacy(r).props) ELSE prev

\* the fetch settles: merge and flag, or catch; finally setExtracting(false)
settle(id, r, ok, merged) ==
  /\ id \in 1..Len(extractions)
  /\ extractions[id].stage = "fetching"
  /\ formData' = merged
  /\ IF ok THEN
       /\ extractionComplete' = TRUE
       /\ UNCHANGED error
     ELSE
       /\ error' = ExtractionError
       /\ UNCHANGED extractionComplete
  /\ extracting' = FALSE
  /\ extractions' = [extractions EXCEPT ![id].stage = "done"]
  /\ last' = [op |-> "extractResponse", job |-> id, response |-> r]
  /\ UNCHANGED <<component, file, lookups, edits, renders>>

\* the typed build
extractInformation(id, r) ==
  /\ component = "typed"
  /\ settle(id, r, extractionResult(r).ok, afterExtraction(formData, r))

\* the legacy build
extractInformationLegacy(id, r) ==
  /\ component = "legacy"
  /\ settle(id, r, extractionResultLegacy(r).ok, afterExtractionLegacy(formData, r))

(***************************************************************************)
(* User edits and VIN enrichment.                                          *)
(***************************************************************************)
\* a trigger that fires from 17 characters on
triggersLookup_AtLeast17(field, value) == field = "vin" /\ Len(value) >= 17

\* if (field === 'vin' && value.length === 17) void decodeVIN(value)
triggersLookup(field, value) == field = "vin" /\ Len(value) = 17

\* decodeVIN up to its first await: the lookup whose request is now pending
lookedUp(ls, vin) == Append(ls, [stage |-> "fetching", vin |-> vin])

PendingLookups(ls) == {i \in 1..Len(ls) : ls[i].stage = "fetching"}

\* an edit that also dismisses the error
handleInputChange_Dismiss(field, value) ==
  /\ value # formData[field]
  /\ formData' = [formData EXCEPT ![field] = value]
  /\ lookups' = IF triggersLookup(field, value) THEN lookedUp(lookups, value) ELSE lookups
  /\ edits' = edits + 1
  /\ error' = ""
  /\ last' = [op |-> "edit", field |-> field, value |-> value]
  /\ UNCHANGED <<component, file, extracting, extractionComplete, extractions, renders>>

\* the same in both builds; the input fires onChange only with a new value
handleInputChange(field, value) ==
  /\ value # formData[field]
  /\ formData' = [formData EXCEPT ![field] = value]
  /\ lookups' = IF triggersLookup(field, value) THEN lookedUp(lookups, value) ELSE lookups
  /\ edits' = edits + 1
  /\ last' = [op |-> "edit", field |-> field, value |-> value]
  /\ UNCHANGED <<component, ui, extractions, renders>>

\* the typed build: the form after the response is handled
afterDecode(prev, vin, r) ==
  IF decodeResult(r) = "merged" THEN mergeDecoded(prev, vin, derived(resultsOf(r))) ELSE prev

\* the legacy build: the form after the response is handled
afterDecodeLegacy(prev, vin, r) ==
  IF decodeResultLegacy(r) = "merged"
    THEN mergeDecodedLegacy(prev, vin, derivedLegacy(r.results)) ELSE prev

\* the lookup's fetch settles: merge, or end without a trace; `locals` are
\* the make-model string and the year the handler derived, if it got there
decoded(id, r, merged, locals) ==
  /\ id \in 1..Len(lookups)
  /\ lookups[id].stage = "fetching"
  /\ formData' = merged
  /\ lookups' = [lookups EXCEPT ![id].stage = "done"]
  /\ last' = [op |-> "vinResponse", lookup |-> id, vin |-> lookups[id].vin,
              response |-> r, derived |-> locals]
  /\ UNCHANGED <<component, ui, extractions, edits, renders>>

NoLocals == [makeModelStr |-> "", year |-> ""]

\* the typed build
decodeVIN(id, r) ==
  /\ component = "typed"
  /\ id \in 1..Len(lookups)
  /\ decoded(id, r, afterDecode(formData, lookups[id].vin, r),
             IF decodeResult(r) = "merged" THEN derived(resultsOf(r)) ELSE NoLocals)

\* the legacy build
decodeVINLegacy(id, r) ==
  /\ component = "legacy"
  /\ id \in 1..Len(lookups)
  /\ decoded(id, r, afterDecodeLegacy(formData, lookups[id].vin, r),
             IF decodeResultLegacy(r) = "merged" THEN derivedLegacy(r.results) ELSE NoLocals)

(***************************************************************************)
(* The export.  generatePDF draws the letter synchronously inside its try  *)
(* block and hands the canvas to toBlob; the callback of toBlob runs       *)
(* later, outside the try block.                                           *)
(***************************************************************************)
\* names with white space around them, as the user may type them
BlankName == "   "
PaddedName == " Jane Doe "

\* String.prototype.trim, on the names of the model
trim(s) ==
  CASE s = BlankName -> ""
    [] s = PaddedName -> "Jane Doe"
    [] OTHER -> s

\* replace(/\s+/g, '_'), on the names of the model
underscored(s) ==
  CASE s = BlankName -> "_"
    [] s = PaddedName -> "_Jane_Doe_"
    [] s = "Jane Doe" -> "Jane_Doe"
    [] s = "John Roe" -> "John_Roe"
    [] OTHER -> s

\* the typed build: disabled={!formData.fullName.trim()}
exportEnabled(name) == trim(name) # ""

\* the legacy build: disabled={!formData.fullName}
exportEnabledLegacy(name) == name # ""

\* link.download
downloadName(name) ==
  "Authorization_Letter_"
    \o (IF underscored(trim(name)) # "" THEN underscored(trim(name)) ELSE "Customer")
    \o ".jpg"
downloadNameLegacy(name) == "Authorization_Letter_" \o underscored(name) \o ".jpg"

\* what drawing can do: succeed, find no 2d context, or throw
Draws == {"ok", "noContext", "throws"}
CanvasMessage == "Canvas not supported"
NullContextMessage == "Cannot set properties of null (setting 'fillStyle')"
DrawMessage == "The operation is insecure."
RenderError(msg) == "Failed to generate image: " \o msg

\* the offsets of the browser's time zone, in minutes east of UTC
Offsets == {-720, -240, 0, 330, 840}
SessionOffsets == {-240, 0}

\* the try block of generatePDF: the letter is handed to toBlob
\* ("serializing"), or the exception is caught and shown
render(enabled, offset, draw, msg) ==
  /\ enabled
  /\ renders' = Append(renders,
       [stage |-> IF draw = "ok" THEN "serializing" ELSE "caught",
        fullName |-> formData.fullName,
        formattedDate |-> formattedDate(formData.date, offset)])
  /\ error' = IF draw = "ok" THEN error ELSE RenderError(msg)
  /\ last' = [op |-> "export", offset |-> offset, draw |-> draw]
  /\ UNCHANGED <<component, file, extracting, formData, extractionComplete,
                 extractions, lookups, edits>>

\* the typed build: if (!ctx) throw new Error('Canvas not supported')
generatePDF(offset, draw) ==
  /\ component = "typed"
  /\ render(exportEnabled(formData.fullName), offset, draw,
            IF draw = "noContext" THEN CanvasMessage ELSE DrawMessage)

\* the legacy build: a null context throws at ctx.fillStyle = ...
generatePDFLegacy(offset, draw) ==
  /\ component = "legacy"
  /\ render(exportEnabledLegacy(formData.fullName), offset, draw,
            IF draw = "noContext" THEN NullContextMessage ELSE DrawMessage)

Serializing(rs) == {i \in 1..Len(rs) : rs[i].stage = "serializing"}
Downloads(rs) == {i \in 1..Len(rs) : rs[i].stage = "downloaded"}

\* the callback of toBlob ends: `stage` tells how
serialized(id, hasBlob, stage, name) ==
  /\ id \in Serializing(renders)
  /\ renders' = [renders EXCEPT ![id] =
       [stage |-> stage, fullName |-> @.fullName, formattedDate |-> @.formattedDate,
        download |-> name]]
  /\ last' = [op |-> "blob", render |-> id, hasBlob |-> hasBlob]
  /\ UNCHANGED <<component, ui, formData, extractions, lookups, edits>>

\* the typed build: if (!blob) return; otherwise the link is clicked
toBlob(id, hasBlob) ==
  /\ component = "typed"
  /\ id \in 1..Len(renders)
  /\ serialized(id, hasBlob, IF hasBlob THEN "downloaded" ELSE "dropped",
                IF hasBlob THEN downloadName(renders[id].fullName) ELSE "")

\* the legacy build: URL.createObjectURL(null) throws in the callback,
\* where no handler catches it
toBlobLegacy(id, hasBlob) ==
  /\ component = "legacy"
  /\ id \in 1..Len(renders)
  /\ serialized(id, hasBlob, IF hasBlob THEN "downloaded" ELSE "uncaught",
                IF hasBlob THEN downloadNameLegacy(renders[id].fullName) ELSE "")

(***************************************************************************)
(* The specifications.                                                     *)
(***************************************************************************)
\* the user's events of a run (accepted uploads, edits and exports) are bounded
Budget(n) == Len(extractions') + edits' + Len(renders') <= n

Upload == \E f \in MediaTypes \cup {NoFile} : handleFileUpload(f)
UploadLegacy == \E f \in MediaTypes \cup {NoFile} : handleFileUploadLegacy(f)
FileRead == \E id \in 1..Len(extractions), ok \in BOOLEAN : fileRead(id, ok)
Extract(responses) ==
  \E id \in 1..Len(extractions), r \in responses : extractInformation(id, r)
ExtractLegacy(responses) ==
  \E id \in 1..Len(extractions), r \in responses : extractInformationLegacy(id, r)
Edit == \E field \in FormFields : \E value \in UserValues(field) : handleInputChange(field, value)
Decode(responses) == \E id \in 1..Len(lookups), r \in responses : decodeVIN(id, r)
DecodeLegacy(responses) == \E id \in 1..Len(lookups), r \in responses : decodeVINLegacy(id, r)
Export(offsets) == \E offset \in offsets, draw \in Draws : generatePDF(offset, draw)
ExportLegacy(offsets) == \E offset \in offsets, draw \in Draws : generatePDFLegacy(offset, draw)
ToBlob == \E id \in 1..Len(renders), hasBlob \in BOOLEAN : toBlob(id, hasBlob)
ToBlobLegacy == \E id \in 1..Len(renders), hasBlob \in BOOLEAN : toBlobLegacy(id, hasBlob)

\* a session: uploads, edits and responses in any order
Next ==
  \/ Upload /\ Budget(MaxEvents)
  \/ UploadLegacy /\ Budget(MaxEvents)
  \/ FileRead
  \/ Extract(SessionAiResponses)
  \/ ExtractLegacy(SessionAiResponses)
  \/ Edit /\ Budget(MaxEvents)
  \/ Decode(SessionVinResponses)
  \/ DecodeLegacy(SessionVinResponses)
  \/ Export(SessionOffsets) /\ Budget(MaxEvents)
  \/ ExportLegacy(SessionOffsets) /\ Budget(MaxEvents)
  \/ ToBlob
  \/ ToBlobLegacy

Spec == Init /\ [][Next]_vars

\* VIN enrichment alone, over every answer of the lookup endpoint
NextDecode ==
  \/ Edit /\ Budget(MaxDecodeEvents) /\ Len(lookups') <= MaxDecodeLookups
  \/ Decode(VinResponses)
  \/ DecodeLegacy(VinResponses)

SpecDecode == Init /\ [][NextDecode]_vars

\* the export alone, over the names and dates a letter may carry and every
\* time zone
LetterNames == {"", BlankName, PaddedName, "Jane Doe"}
Dates ==
  {toISODate(y, m, d) : y \in {2023, 2024}, m \in 1..12, d \in {1, 5, 28}}
  \cup {toISODate(y, m, DaysIn(y, m)) : y \in {2023, 2024}, m \in 1..12}
LetterValues(field) == IF field = "fullName" THEN LetterNames ELSE Dates

EditLetter ==
  \E field \in {"fullName", "date"} :
    \E value \in LetterValues(field) : handleInputChange(field, value)

NextExport ==
  \/ EditLetter /\ Budget(MaxExportEvents)
  \/ Export(Offsets) /\ Budget(MaxExportEvents)
  \/ ExportLegacy(Offsets) /\ Budget(MaxExportEvents)
  \/ ToBlob
  \/ ToBlobLegacy

SpecExport == Init /\ [][NextExport]_vars

\* the extraction alone, over every answer of the AI endpoint
NextParse ==
  \/ Upload /\ Len(extractions') <= MaxParseUploads
  \/ UploadLegacy /\ Len(extractions') <= MaxParseUploads
  \/ FileRead
  \/ Extract(AiResponses)
  \/ ExtractLegacy(AiResponses)

SpecParse == Init /\ [][NextParse]_vars

(***************************************************************************)
(* The claims.  A step of a handler is told by `last` after it.            *)
(***************************************************************************)
\* a response whose text is exactly one JSON object, and that object's
\* properties
IsPlainObject(r) ==
  /\ r.netOk /\ r.httpOk /\ r.jsonOk /\ r.hasContent
  /\ Len(r.content) = 1 /\ r.content[1].type = "text"
  /\ Len(r.content[1].text) = 1 /\ r.content[1].text[1].k = "obj"
PlainProps(r) == r.content[1].text[1].p

\* C1: fill-if-present.  When an extraction succeeds, a field whose
\* extracted value is the empty string keeps the value it had before the
\* merge, and a field changes only to a non-empty extracted value.
C1_FillIfPresent ==
  [][(last'.op = "extractResponse" /\ IsPlainObject(last'.response)) =>
       \A f \in ExtractedFields :
         /\ PlainProps(last'.response)[f] = JsStr("") => formData'[f] = formData[f]
         /\ formData'[f] # formData[f] =>
              /\ Truthy(PlainProps(last'.response)[f])
              /\ formData'[f] = PlainProps(last'.response)[f].v]_vars

\* the media types the upload validator is to accept
AcceptedTypes == {"application/pdf", "image/jpeg", "image/jpg", "image/png"}

\* C2: an upload of any other media type sets a non-empty error, starts no
\* extraction (no new extraction, no request, extracting as it was) and
\* leaves the six form fields as they were.
C2_RejectedUpload ==
  [][(last'.op = "upload" /\ last'.type \notin AcceptedTypes \cup {NoFile}) =>
       /\ error' # ""
       /\ extractions' = extractions
       /\ extracting' = extracting
       /\ formData' = formData]_vars

\* a rejected upload of a GIF over a form the user has begun to fill
C2_Witness ==
  /\ last.op = "upload" /\ last.type = "image/gif"
  /\ error = UploadError
  /\ formData.fullName = "Jane Doe"
  /\ extractions = <<>>

\* an answer that carries no JSON object at all: no content list, no text
\* item, or texts without an object literal
CarriesNoObject(r) ==
  \/ ~r.hasContent
  \/ \A i \in 1..Len(r.content) :
       \A j \in 1..Len(r.content[i].text) : r.content[i].text[j].k # "obj"

\* the failures of an extraction: the file cannot be read, the request
\* fails, the status is not a success, the body is not JSON or carries no
\* object to parse
ExtractionFailed(l) ==
  \/ l.op = "fileRead" /\ ~l.ok
  \/ /\ l.op = "extractResponse"
     /\ \/ ~l.response.netOk
        \/ ~l.response.httpOk
        \/ ~l.response.jsonOk
        \/ CarriesNoObject(l.response)

\* C3: a failed extraction sets the generic extraction error, does not set
\* the extraction-complete flag, and leaves the six form fields as they
\* were.
C3_FailedExtraction ==
  [][ExtractionFailed(last') =>
       /\ error' = ExtractionError
       /\ extractionComplete' = extractionComplete
       /\ formData' = formData]_vars

\* C4: a lookup request is issued exactly by a user edit of vin to a value
\* of 17 characters: no other step issues one, and such an edit issues one
\* request, keyed by the edited value.
C4_LookupOnFullVinOnly ==
  [][/\ Len(lookups') > Len(lookups) <=>
          (last'.op = "edit" /\ last'.field = "vin" /\ Len(last'.value) = 17)
     /\ Len(lookups') > Len(lookups) =>
          lookups' = Append(lookups, [stage |-> "fetching", vin |-> last'.value])]_vars

\* the user has typed a full VIN and its lookup is pending
C4_Witness ==
  /\ last.op = "edit" /\ last.field = "vin" /\ last.value = UserVin
  /\ lookups = <<[stage |-> "fetching", vin |-> UserVin]>>

\* a lookup answered with a status of success and a body with a Results list
ResultBearing(r) == r.netOk /\ r.httpOk /\ r.jsonOk /\ r.hasResults

\* a value of the lookup that is there: a string, not empty, not the placeholder
Present(x) == x.t = "string" /\ x.v # "" /\ x.v # "Not Applicable"

\* C5: the VIN merge policy.  When a lookup for v is answered, vin is v;
\* makeModel is the derived make-model string if that is not empty, and
\* year the Model Year value if that is there, else each keeps its value;
\* fullName, address and date keep theirs.
C5_VinMergePolicy ==
  [][(last'.op = "vinResponse" /\ ResultBearing(last'.response)) =>
       /\ formData'.vin = last'.vin
       /\ formData'.makeModel =
            IF last'.derived.makeModelStr # "" THEN last'.derived.makeModelStr
            ELSE formData.makeModel
       /\ formData'.year =
            IF Present(last'.response.results["Model Year"])
              THEN last'.response.results["Model Year"].v
              ELSE formData.year
       /\ formData'.fullName = formData.fullName
       /\ formData'.address = formData.address
       /\ formData'.date = formData.date]_vars

\* every queried field is "Not Applicable": the user's make and model stay,
\* and vin is the VIN that was looked up
C5_Witness ==
  /\ last.op = "vinResponse"
  /\ ResultBearing(last.response)
  /\ \A v \in Variables : last.response.results[v] = JsStr("Not Applicable")
  /\ formData.makeModel = "Ford F150"
  /\ formData.year = ""
  /\ formData.vin = last.vin

\* the reference derivation of the make-model string
RefModel(rs) ==
  IF Present(rs["Model"]) THEN rs["Model"].v
  ELSE IF Present(rs["Series"]) THEN rs["Series"].v
  ELSE IF Present(rs["Trim"]) THEN rs["Trim"].v
  ELSE ""
RefMake(rs) == IF Present(rs["Make"]) THEN rs["Make"].v ELSE ""
RefMakeModel(rs) ==
  IF RefMake(rs) # "" /\ RefModel(rs) # "" THEN RefMake(rs) \o " " \o RefModel(rs)
  ELSE IF RefMake(rs) # "" THEN RefMake(rs)
  ELSE RefModel(rs)

\* C6: for every combination of Make, Model, Series and Trim, the make-model
\* string decodeVIN derives is the reference one.
C6_MakeModelDerivation ==
  (last.op = "vinResponse" /\ ResultBearing(last.response)) =>
    last.derived.makeModelStr = RefMakeModel(last.response.results)

\* Make "Honda", Model "Not Applicable", Series "Civic" gives "Honda Civic"
C6_Witness ==
  /\ last.op = "vinResponse"
  /\ ResultBearing(last.response)
  /\ last.response.results["Make"] = JsStr("Honda")
  /\ last.response.results["Model"] = JsStr("Not Applicable")
  /\ last.response.results["Series"] = JsStr("Civic")
  /\ last.derived.makeModelStr = "Honda Civic"
  /\ formData.makeModel = "Honda Civic"

\* the failures of a lookup: the request fails, the status is not a
\* success, the body is not JSON or has no Results
LookupFailed(r) == ~r.netOk \/ ~r.httpOk \/ ~r.jsonOk \/ ~r.hasResults

\* C7: a failed lookup is silent: the error, the two flags and the six form
\* fields are as they were.
C7_SilentLookupFailure ==
  [][(last'.op = "vinResponse" /\ LookupFailed(last'.response)) =>
       /\ error' = error
       /\ extracting' = extracting
       /\ extractionComplete' = extractionComplete
       /\ formData' = formData]_vars

\* C8 as stated: at most one extraction request is in flight.
C8_AtMostOneInFlight == Cardinality(Requested(extractions)) <= 1

\* C8: the extractions in flight grow only by an accepted upload, and by
\* exactly one per accepted upload, whether or not another is in flight; so
\* there is at most one only as long as uploads do not overlap.
C8_OnePerAcceptedUpload ==
  [][/\ Cardinality(InFlight(extractions')) <= Cardinality(InFlight(extractions)) + 1
     /\ Cardinality(InFlight(extractions')) > Cardinality(InFlight(extractions)) <=>
          (last'.op = "upload" /\ last'.type \in AcceptedTypes)]_vars

\* a second upload was accepted before the first extraction had settled
C8_Witness ==
  /\ last.op = "upload" /\ last.type \in AcceptedTypes
  /\ Cardinality(InFlight(extractions)) = 2
  /\ extracting

\* the form after an answer is handled, in the build that runs
FormAfterExtraction(fd, r) ==
  IF component = "typed" THEN afterExtraction(fd, r) ELSE afterExtractionLegacy(fd, r)
FormAfterDecode(fd, vin, r) ==
  IF component = "typed" THEN afterDecode(fd, vin, r) ELSE afterDecodeLegacy(fd, vin, r)

SameVehicle(a, b) == a.vin = b.vin /\ a.makeModel = b.makeModel /\ a.year = b.year

\* C9: no two pending network operations race over a field: whatever two
\* pending operations (two lookups, or an extraction and a lookup) are
\* answered, vin, makeModel and year end the same in either order.
C9_NoRace ==
  /\ \A i, j \in PendingLookups(lookups) : \A ri, rj \in SessionVinResponses :
       SameVehicle(
         FormAfterDecode(FormAfterDecode(formData, lookups[i].vin, ri), lookups[j].vin, rj),
         FormAfterDecode(FormAfterDecode(formData, lookups[j].vin, rj), lookups[i].vin, ri))
  /\ \A x \in Requested(extractions), i \in PendingLookups(lookups) :
       \A rx \in SessionAiResponses, ri \in SessionVinResponses :
         SameVehicle(
           FormAfterDecode(FormAfterExtraction(formData, rx), lookups[i].vin, ri),
           FormAfterExtraction(FormAfterDecode(formData, lookups[i].vin, ri), rx))

\* C10 as stated: an accepted upload clears the error and the
\* extraction-complete flag and starts one extraction, and every accepted
\* upload issues exactly one AI request.
C10_OneRequestPerUpload ==
  /\ [][(last'.op = "upload" /\ last'.type \in AcceptedTypes) =>
          /\ error' = ""
          /\ ~extractionComplete'
          /\ Len(extractions') = Len(extractions) + 1]_vars
  /\ [](\A i \in 1..Len(extractions) :
          extractions[i].stage = "done" => extractions[i].requests = 1)

\* C10: an accepted upload clears the error and the extraction-complete
\* flag and starts one extraction, which has issued no request yet; an
\* extraction issues one AI request once its file is read and none when the
\* read fails, never more than one.
C10_OneExtractionPerUpload ==
  /\ [][(last'.op = "upload" /\ last'.type \in AcceptedTypes) =>
          /\ error' = ""
          /\ ~extractionComplete'
          /\ extractions' =
               Append(extractions, [stage |-> "reading", read |-> "pending", requests |-> 0])]_vars
  /\ [](\A i \in 1..Len(extractions) :
          extractions[i].requests = IF extractions[i].read = "ok" THEN 1 ELSE 0)

\* a second upload is accepted after the first extraction has ended: what
\* the first left in the error and the flag is cleared
C10_Witness ==
  /\ last.op = "upload" /\ last.type = "image/png"
  /\ Len(extractions) = 2
  /\ extractions[1] = [stage |-> "done", read |-> "ok", requests |-> 1]
  /\ extractions[2] = [stage |-> "reading", read |-> "pending", requests |-> 0]
  /\ error = "" /\ ~extractionComplete /\ extracting

\* a name that is empty or only white space
IsBlank(name) == name \in {"", BlankName}

\* C11: the export is a no-op while fullName is empty or only white space:
\* no letter is ever rendered, and none downloaded, for such a name.
C11_ExportNoOp == \A i \in 1..Len(renders) : ~IsBlank(renders[i].fullName)

\* the month, day and year a date text names, read off its characters
RefFormatted(date) ==
  months[NumberOf(SubSeq(date, 6, 7))] \o " " \o ToString(NumberOf(SubSeq(date, 9, 10)))
    \o ", " \o ToString(NumberOf(SubSeq(date, 1, 4)))

\* C13: the letter's date is "<month MM> <day DD without leading zero>,
\* YYYY" of the stored date YYYY-MM-DD, whatever the time zone of the
\* browser that renders it.
C13_DateFormat ==
  last.op = "export" => renders[Len(renders)].formattedDate = RefFormatted(formData.date)

\* a render that fails: while drawing, or when toBlob delivers no blob
RenderFailed(l) == (l.op = "export" /\ l.draw # "ok") \/ (l.op = "blob" /\ ~l.hasBlob)
RenderErrors ==
  {RenderError(msg) : msg \in {CanvasMessage, NullContextMessage, DrawMessage}}

\* C17: every failure of the render, the blob step and its callback
\* included, sets the error to a 'Failed to generate image: ...' message,
\* downloads nothing and leaves the six fields as they were.
C17_RenderFailureCaught ==
  [][RenderFailed(last') =>
       /\ error' \in RenderErrors
       /\ Downloads(renders') = Downloads(renders)
       /\ formData' = formData]_vars

\* an extraction ends: its response is handled, or its file cannot be read
ExtractionEnded(l) == l.op = "extractResponse" \/ (l.op = "fileRead" /\ ~l.ok)

\* the two outcomes of the flag sequence
OutcomeExtracted(complete, err) == complete /\ err = ""
OutcomeFailed(complete, err) == ~complete /\ err = ExtractionError

\* C12: idle -> extracting -> {extracted | extraction-failed}.  When an
\* extraction ends, extracting is false and exactly one outcome holds:
\* extracted (complete flag true, error empty) or extraction-failed (error
\* the extraction message, complete flag false); and the complete flag is
\* set only by an extraction that ends.
C12_LinearFlags ==
  [][/\ ExtractionEnded(last') =>
          /\ extracting' = FALSE
          /\ OutcomeExtracted(extractionComplete', error')
               # OutcomeFailed(extractionComplete', error')
     /\ (extractionComplete' /\ ~extractionComplete) => last'.op = "extractResponse"]_vars

\* C14: no failure is fatal.  In every state an edit of each of the six
\* fields is enabled, and an edit sets its field to exactly the typed
\* value and leaves the other five fields, the error and the two flags as
\* they were.
C14_AlwaysEditable ==
  /\ [](\A field \in FormFields :
         \E value \in UserValues(field) : ENABLED handleInputChange(field, value))
  /\ [][last'.op = "edit" =>
          /\ formData'[last'.field] = last'.value
          /\ \A f \in FormFields \ {last'.field} : formData'[f] = formData[f]
          /\ error' = error
          /\ extracting' = extracting
          /\ extractionComplete' = extractionComplete]_vars

\* an edit after a failed extraction, with its error on display
C14_Witness ==
  /\ last.op = "edit"
  /\ error = ExtractionError
  /\ ~extracting

\* C15: the date changes only by a user edit of the date field (no
\* extraction, lookup, upload or export changes it), so it is the
\* session-start default until the user edits.
C15_DateOnlyByEdit ==
  /\ [](edits = 0 => formData.date = SessionStartDate)
  /\ [][formData'.date # formData.date =>
          last'.op = "edit" /\ last'.field = "date"]_vars

\* a successful extraction over a form whose date the user has picked
C15_Witness ==
  /\ last.op = "extractResponse"
  /\ extractionComplete
  /\ formData.fullName = "John Roe"
  /\ formData.date = PickedDate

\* an answer with a success status whose body is JSON and carries exactly
\* one text item, and the text of that item
IsSingleText(r) ==
  /\ r.netOk /\ r.httpOk /\ r.jsonOk /\ r.hasContent
  /\ Len(r.content) = 1 /\ r.content[1].type = "text"
SingleText(r) == r.content[1].text

\* stage one: the text without its fence markers is one JSON object
RefWhole(t) ==
  LET rest == SelectSeq(t, LAMBDA s : s.k \notin {"fence_json", "fence", "ws"})
  IN Len(rest) = 1 /\ rest[1].k = "obj"

\* stage two: the first brace-delimited run of the text is a JSON object
RefFirstObject(t) ==
  LET runs == SelectSeq(t, LAMBDA s : s.k \in {"obj", "braces"})
  IN runs # <<>> /\ runs[1].k = "obj"

\* C16: two-stage parsing.  The extraction succeeds when the cleaned text
\* parses as JSON or, failing that, when the first top-level object
\* literal in it parses; it fails for a parse reason only when both stages
\* fail.
C16_TwoStageParse ==
  [][(last'.op = "extractResponse" /\ IsSingleText(last'.response)) =>
       ((extractionComplete' /\ error' # ExtractionError)
          <=> (RefWhole(SingleText(last'.response))
                 \/ RefFirstObject(SingleText(last'.response))))]_vars

\* C18: the extracting flag is accurate: it is true exactly while an
\* extraction has been started and has not yet ended.
C18_ExtractingAccurate == extracting <=> InFlight(extractions) # {}

\* C19: the response of a lookup issued for an earlier value of the vin
\* field does not put that value back over the user's newer edit.  (With
\* edits and lookups alone, the vin field holds the user's latest edit
\* until a response changes it.)
C19_NoStaleVin ==
  [][(last'.op = "vinResponse" /\ formData.vin # last'.vin) =>
       formData'.vin = formData.vin]_vars

====
